---- MODULE Spec2Model ----
(***************************************************************************)
(* The warehouse front-end as a state machine: the login component, the    *)
(* router configuration, the HTTP pipeline of the application module, the  *)
(* browser's localStorage and the warehouse list component.                *)
(*                                                                         *)
(* Execution is the single-threaded event loop of the browser: every       *)
(* action below is one event handler (a user event, or the arrival of one  *)
(* HTTP response) run to completion.                                       *)
(***************************************************************************)
EXTENDS Integers, Sequences, FiniteSets, TLC

(***************************************************************************)
(* Bounds of the model.                                                    *)
(***************************************************************************)
\* number of HTTP requests the application issues in one behaviour
MaxRequests == 2
\* largest total_pages the backend reports for the warehouse list
MaxPages == 2
\* number of list requests the warehouse page issues in one behaviour of the
\* paging specification
MaxLoads == 3
\* longest warehouse list the filter is applied to
MaxLen == 2

(***************************************************************************)
(* Program constants.                                                      *)
(***************************************************************************)
\* Validators.minLength(6) on the password control
MinLength == 6
\* WarehouseComponent.pageSize
pageSize == 10
\* retry({count: 2, ...}) of the documented ErrorInterceptor
RetryCount == 2

\* the value getItem returns for a key that is not stored, and the value of
\* an absent optional field (null / undefined)
NULL == <<>>

(***************************************************************************)
(* Input domains.                                                          *)
(***************************************************************************)
Usernames == {"", "alice"}
Passwords == {"", "abcde", "secret1"}
\* paths a navigation can ask for
Paths == {"", "login", "register", "dashboard", "warehouse"}
\* pages that the documentation calls protected
ProtectedPaths == {"dashboard", "warehouse"}

(***************************************************************************)
(* Messages of the login component.                                        *)
(***************************************************************************)
MsgMissing == "Vui long dien day du thong tin dang nhap"
MsgWrong == "Ten dang nhap hoac mat khau khong dung"
MsgWelcome == "Chao mung ban quay tro lai!"
NoToast == [kind |-> "none", message |-> "", title |-> ""]

(***************************************************************************)
(* Endpoints, as sequences of path segments.                               *)
(***************************************************************************)
LoginUrl == <<"api", "v1", "auth", "login">>
WarehouseUrl == <<"api", "v1", "warehouse">>

\* String.prototype.includes at the granularity of path segments
Includes(s, sub) ==
  \E i \in 1..(Len(s) - Len(sub) + 1) : SubSeq(s, i, i + Len(sub) - 1) = sub

\* JwtInterceptor.isAuthEndpoint
isAuthEndpoint(u) ==
  \E e \in {<<"auth", "login">>, <<"auth", "register">>, <<"auth", "refresh">>} :
    Includes(u, e)


(***************************************************************************)
(* State.                                                                  *)
(***************************************************************************)
VARIABLES
  localStorage,   \* the browser's localStorage: a function from the stored keys
  url,            \* the path the router has settled on
  http,           \* the HTTP requests in flight
  nextId,         \* identity of the next request issued
  loginForm,      \* LoginComponent.loginForm.value
  isLoading,      \* LoginComponent.isLoading
  errorMessage,   \* LoginComponent.errorMessage
  hidePassword,   \* LoginComponent.hidePassword
  submitted,      \* LoginComponent.submitted
  toast,          \* the last notification handed to ToastrService
  wareHouses,     \* WarehouseComponent.wareHouses
  loading,        \* WarehouseComponent.loading
  currentPage,    \* WarehouseComponent.currentPage
  totalElements,  \* WarehouseComponent.totalElements
  totalPages,     \* WarehouseComponent.totalPages
  whInit,         \* WarehouseComponent.ngOnInit has run
  searchTerm,     \* WarehouseComponent.searchTerm
  selectedStatus, \* WarehouseComponent.selectedStatus
  selectedType,   \* WarehouseComponent.selectedType
  filtered,       \* the array getFilteredWarehouses returned last
  activation,     \* the last call of RoleGuard.canActivate and its outcome
  ev              \* the event handler that ran last (history)

loginVars == <<loginForm, isLoading, errorMessage, hidePassword, submitted>>
whVars == <<wareHouses, loading, currentPage, totalElements, totalPages, whInit>>
filterVars == <<searchTerm, selectedStatus, selectedType, filtered>>
vars == <<localStorage, url, http, nextId, loginForm, isLoading, errorMessage,
          hidePassword, submitted, toast, wareHouses, loading, currentPage,
          totalElements, totalPages, whInit, searchTerm, selectedStatus,
          selectedType, filtered, activation, ev>>

\* no guard has been asked yet
NoActivation ==
  [called |-> FALSE, path |-> "", isAuthenticated |-> FALSE, roles |-> {},
   hasRoles |-> FALSE, requiredRoles |-> {}, allow |-> FALSE,
   navigate |-> "", threw |-> FALSE]

\* the shape of ev
Event(op, id, status, path, ok) ==
  [op |-> op, id |-> id, status |-> status, path |-> path, ok |-> ok]

(***************************************************************************)
(* localStorage.                                                           *)
(***************************************************************************)
getItem(store, key) == IF key \in DOMAIN store THEN store[key] ELSE NULL

setItem(store, key, value) ==
  [k \in (DOMAIN store) \cup {key} |-> IF k = key THEN value ELSE store[k]]

\* the session is the one the stored access token stands for
isAuthenticated == getItem(localStorage, "access_token") # NULL

(***************************************************************************)
(* Router configuration.                                                   *)
(***************************************************************************)
\* routes with a dashboard page declared without a guard
routesDashboard ==
  << [path |-> "", kind |-> "redirect", target |-> "login"],
     [path |-> "login", kind |-> "component", target |-> "LoginComponent"],
     [path |-> "dashboard", kind |-> "component", target |-> "DashboardComponent"],
     [path |-> "register", kind |-> "component", target |-> "RegisterComponent"],
     [path |-> "**", kind |-> "redirect", target |-> "login"] >>

routes ==
  << [path |-> "", kind |-> "redirect", target |-> "login"],
     [path |-> "login", kind |-> "component", target |-> "LoginComponent"],
     [path |-> "register", kind |-> "component", target |-> "RegisterComponent"],
     [path |-> "**", kind |-> "redirect", target |-> "login"] >>

\* a route matches the single-segment path p
Matches(route, p) == route.path = "**" \/ route.path = p

\* the router takes the first route that matches, in the order of the array
FirstMatch(p) ==
  CHOOSE i \in 1..Len(routes) :
    Matches(routes[i], p) /\ \A j \in 1..(i - 1) : ~Matches(routes[j], p)

RECURSIVE Resolve(_)
\* the path a navigation to p settles on, redirects applied
Resolve(p) ==
  LET r == routes[FirstMatch(p)]
  IN  IF r.kind = "redirect" THEN Resolve(r.target) ELSE p

(***************************************************************************)
(* HTTP pipeline of the application module.                                *)
(***************************************************************************)
\* AppModule with the two documented interceptors provided
HTTP_INTERCEPTORS_provided == {"JwtInterceptor", "ErrorInterceptor"}

\* the interceptors AppModule provides under HTTP_INTERCEPTORS
HTTP_INTERCEPTORS == {}

\* JwtInterceptor.intercept: the Authorization header it leaves on a request
JwtIntercept(endpoint, token) ==
  IF isAuthEndpoint(endpoint) THEN NULL
  ELSE IF token # NULL THEN <<"Bearer", token>>
  ELSE NULL

\* the Authorization header of a request as it leaves HttpClient
RequestHeaders(endpoint, store) ==
  IF "JwtInterceptor" \in HTTP_INTERCEPTORS
    THEN JwtIntercept(endpoint, getItem(store, "access_token"))
    ELSE NULL

\* ErrorInterceptor.intercept: a failed request is sent again while retries
\* are left
retry(r) == r.sends <= RetryCount

\* whether the pipeline sends the failed request r again
Resends(r) == "ErrorInterceptor" \in HTTP_INTERCEPTORS /\ retry(r)

\* AuthService.logout as documented: the stored credentials are cleared
logout(store) == <<>>

\* the message ErrorInterceptor.handleError picks for a status
StatusMessage(status) ==
  CASE status = 0 -> "Loi"
    [] status = 400 -> "Du lieu khong hop le"
    [] status = 401 -> "Phien dang nhap het han"
    [] status = 403 -> "Ban khong co quyen thuc hien thao tac nay"
    [] status = 404 -> "Khong tim thay du lieu"
    [] status = 500 -> "Loi server. Vui long thu lai sau"
    [] OTHER -> "Loi"

\* ErrorInterceptor.handleError: what it leaves of the storage, the page and
\* the notification before the error is thrown on to the subscriber
handleError(store, page, note, status) ==
  [store |-> IF status = 401 THEN logout(store) ELSE store,
   url |-> IF status = 401 THEN Resolve("login") ELSE page,
   toast |-> [kind |-> "error", message |-> "Loi",
              title |-> StatusMessage(status)]]

\* a pipeline that logs out on every error response
PipelineErrorLogout(store, page, note, status) ==
  [store |-> logout(store), url |-> Resolve("login"), toast |-> note]

\* what the pipeline does to an error response before the subscriber's error
\* handler sees it
PipelineError(store, page, note, status) ==
  IF "ErrorInterceptor" \in HTTP_INTERCEPTORS
    THEN handleError(store, page, note, status)
    ELSE [store |-> store, url |-> page, toast |-> note]

Request(id, endpoint, username, password, page, store) ==
  [id |-> id, endpoint |-> endpoint, username |-> username,
   password |-> password, page |-> page,
   authorization |-> RequestHeaders(endpoint, store), sends |-> 1,
   live |-> TRUE]

(***************************************************************************)
(* Backend.                                                                *)
(***************************************************************************)
\* AuthResponse of the login that request id carries
AuthResponse(id) ==
  [access_token |-> <<"access", id>>, refresh_token |-> <<"refresh", id>>,
   expire_access_token |-> <<"expAccess", id>>,
   expire_refresh_token |-> <<"expRefresh", id>>]

\* HttpErrorResponse of a login: rejected with or without a message, or no
\* response at all (status 0)
LoginErrors ==
  { [status |-> 401, message |-> "Invalid credentials"],
    [status |-> 400, message |-> ""],
    [status |-> 0, message |-> ""] }

\* error statuses of a warehouse list call
ErrorStatuses == {0, 401, 403, 404, 500}

(***************************************************************************)
(* LoginComponent.                                                         *)
(***************************************************************************)
\* Validators.required: the control's value is not empty
required(v) == v # ""

\* minLength that accepts every value
minLengthNone(n, v) == TRUE

\* Validators.minLength(n): an empty value passes, any other needs n characters
minLength(n, v) == v = "" \/ Len(v) >= n

\* loginForm.invalid, for the controls ngOnInit builds
invalid(form) ==
  ~(required(form.username) /\ required(form.password)
      /\ minLength(MinLength, form.password))

\* the fields of a LoginComponent that has just been constructed and initialised
InitialLogin ==
  [loginForm |-> [username |-> "", password |-> ""], isLoading |-> FALSE,
   errorMessage |-> "", hidePassword |-> TRUE, submitted |-> FALSE]

LoginFields ==
  [loginForm |-> loginForm, isLoading |-> isLoading,
   errorMessage |-> errorMessage, hidePassword |-> hidePassword,
   submitted |-> submitted]

SetLogin(f) ==
  /\ loginForm' = f.loginForm
  /\ isLoading' = f.isLoading
  /\ errorMessage' = f.errorMessage
  /\ hidePassword' = f.hidePassword
  /\ submitted' = f.submitted

\* The router keeps the LoginComponent while the page stays login; leaving the
\* page destroys it and coming back constructs a new one.
AfterNavigation(from, to, fields) ==
  IF from = "login" /\ to = "login" THEN fields ELSE InitialLogin

\* the requests whose subscriber belongs to a destroyed LoginComponent: their
\* callbacks still run, on the fields of the destroyed instance
Detach(from, to, reqs) ==
  IF from = "login" /\ to # "login"
    THEN { IF r.endpoint = LoginUrl THEN [r EXCEPT !.live = FALSE] ELSE r :
             r \in reqs }
    ELSE reqs

\* StoreTokens that keeps a pair that is already stored
StoreTokensKeep(store, response) ==
  IF "access_token" \in DOMAIN store THEN store
  ELSE setItem(setItem(store, "access_token", response.access_token),
               "refresh_token", response.refresh_token)

\* StoreTokens without its second setItem
StoreTokensAccessOnly(store, response) ==
  setItem(store, "access_token", response.access_token)

\* StoreTokens with the two keys exchanged
StoreTokensSwapped(store, response) ==
  setItem(setItem(store, "access_token", response.refresh_token),
          "refresh_token", response.access_token)

\* StoreTokens that also remembers the user name
StoreTokensRemember(store, response) ==
  setItem(setItem(setItem(store, "access_token", response.access_token),
                  "refresh_token", response.refresh_token),
          "username", "alice")

\* the two localStorage.setItem calls of the next handler
StoreTokens(store, response) ==
  setItem(setItem(store, "access_token", response.access_token),
          "refresh_token", response.refresh_token)

\* the user edits the two controls of the form
patchValue(u, p) ==
  /\ url = "login"
  /\ loginForm' = [username |-> u, password |-> p]
  /\ ev' = Event("patchValue", 0, 0, "", FALSE)
  /\ UNCHANGED <<localStorage, url, http, nextId, isLoading, errorMessage,
                 hidePassword, submitted, toast, whVars, filterVars, activation>>

togglePassword ==
  /\ url = "login"
  /\ hidePassword' = ~hidePassword
  /\ ev' = Event("togglePassword", 0, 0, "", FALSE)
  /\ UNCHANGED <<localStorage, url, http, nextId, loginForm, isLoading,
                 errorMessage, submitted, toast, whVars, filterVars, activation>>

onSubmit ==
  /\ url = "login"
  /\ submitted' = TRUE
  /\ IF invalid(loginForm)
       THEN /\ toast' = [kind |-> "warning", message |-> MsgMissing,
                         title |-> "Thieu thong tin"]
            /\ ev' = Event("onSubmit", 0, 0, "", FALSE)
            /\ UNCHANGED <<http, nextId, isLoading, errorMessage>>
       ELSE /\ nextId <= MaxRequests
            /\ isLoading' = TRUE
            /\ errorMessage' = ""
            /\ http' = http \cup
                 { Request(nextId, LoginUrl, loginForm.username,
                           loginForm.password, 0, localStorage) }
            /\ nextId' = nextId + 1
            /\ ev' = Event("onSubmit", nextId, 0, "", TRUE)
            /\ UNCHANGED toast
  /\ UNCHANGED <<localStorage, url, loginForm, hidePassword, whVars,
                 filterVars, activation>>

\* the next handler of onSubmit's subscription: the response to r is a success
LoginNext(r) ==
  /\ r \in http
  /\ r.endpoint = LoginUrl
  /\ LET response == AuthResponse(r.id)
         to == Resolve("dashboard")
         fields == IF r.live THEN [LoginFields EXCEPT !.isLoading = FALSE]
                             ELSE LoginFields
     IN  /\ localStorage' = StoreTokens(localStorage, response)
         /\ toast' = [kind |-> "success", message |-> MsgWelcome,
                      title |-> "Dang nhap thanh cong"]
         /\ url' = to
         /\ SetLogin(AfterNavigation(url, to, fields))
         /\ http' = Detach(url, to, http \ {r})
  /\ ev' = Event("loginNext", r.id, 200, "", TRUE)
  /\ UNCHANGED <<nextId, whVars, filterVars, activation>>

\* the response to r is the error e: the pipeline sends r again, or the error
\* handler of onSubmit's subscription runs
LoginError(r, e) ==
  /\ r \in http
  /\ r.endpoint = LoginUrl
  /\ IF Resends(r)
       THEN /\ http' = (http \ {r}) \cup {[r EXCEPT !.sends = @ + 1]}
            /\ ev' = Event("resend", r.id, e.status, "", FALSE)
            /\ UNCHANGED <<localStorage, url, loginVars, toast>>
       ELSE LET piped == PipelineError(localStorage, url, toast, e.status)
                fields == IF r.live
                            THEN [LoginFields EXCEPT !.errorMessage = MsgWrong,
                                                     !.isLoading = FALSE]
                            ELSE LoginFields
            IN  /\ localStorage' = piped.store
                /\ url' = piped.url
                /\ SetLogin(AfterNavigation(url, piped.url, fields))
                /\ http' = Detach(url, piped.url, http \ {r})
                /\ toast' = [kind |-> "error",
                             message |-> IF e.message # "" THEN e.message
                                                           ELSE MsgWrong,
                             title |-> "Dang nhap that bai"]
                /\ ev' = Event("loginError", r.id, e.status, "", FALSE)
  /\ UNCHANGED <<nextId, whVars, filterVars, activation>>

(***************************************************************************)
(* Router.                                                                 *)
(***************************************************************************)
\* the user asks for path p (a link, or the address bar)
Navigate(p) ==
  /\ LET to == Resolve(p)
     IN  /\ url' = to
         /\ SetLogin(AfterNavigation(url, to, LoginFields))
         /\ http' = Detach(url, to, http)
  /\ ev' = Event("navigate", 0, 0, p, FALSE)
  /\ UNCHANGED <<localStorage, nextId, toast, whVars, filterVars, activation>>

\* role names of users and of route data
Roles == {"ADMIN", "MANAGER", "STAFF"}

\* route.data['roles']: an array of role names (its elements, as a set), or
\* undefined when the route declares none
RouteData ==
  { [hasRoles |-> TRUE, roles |-> rs] : rs \in SUBSET Roles }
  \cup { [hasRoles |-> FALSE, roles |-> {}] }

\* RoleGuard.canActivate on one value of authState$: whether it allows the
\* navigation, the page it navigates to instead, and whether it threw
\* (requiredRoles.some on undefined)
canActivate(authenticated, userRoles, route) ==
  IF ~authenticated
    THEN [allow |-> FALSE, navigate |-> "login", threw |-> FALSE]
  ELSE IF ~route.hasRoles
    THEN [allow |-> FALSE, navigate |-> "", threw |-> TRUE]
  ELSE IF ~(\E role \in route.roles : role \in userRoles)
    THEN [allow |-> FALSE, navigate |-> "dashboard", threw |-> FALSE]
  ELSE [allow |-> TRUE, navigate |-> "", threw |-> FALSE]

\* the router asks the guard of the route at path p, for a user with
\* userRoles; the router then settles on p, on the page the guard navigated
\* to, or stays where it was
RoleGuardActivate(p, userRoles, route) ==
  /\ LET result == canActivate(isAuthenticated, userRoles, route)
         to == IF result.allow THEN p
               ELSE IF result.navigate # "" THEN Resolve(result.navigate)
               ELSE url
     IN  /\ activation' =
               [called |-> TRUE, path |-> p,
                isAuthenticated |-> isAuthenticated, roles |-> userRoles,
                hasRoles |-> route.hasRoles, requiredRoles |-> route.roles,
                allow |-> result.allow, navigate |-> result.navigate,
                threw |-> result.threw]
         /\ url' = to
         /\ SetLogin(AfterNavigation(url, to, LoginFields))
         /\ http' = Detach(url, to, http)
  /\ ev' = Event("canActivate", 0, 0, p, activation'.allow)
  /\ UNCHANGED <<localStorage, nextId, toast, whVars, filterVars>>

\* the AuthServiceService constructor when it asks the backend about the
\* stored token
constructorRequestsVerify(id, store) ==
  IF "access_token" \in DOMAIN store
    THEN { [id |-> id, endpoint |-> <<"api", "v1", "auth", "me">>,
            username |-> "", password |-> "", page |-> 0,
            authorization |-> NULL, sends |-> 1, live |-> TRUE] }
    ELSE {}

\* the HTTP requests the AuthServiceService constructor issues when the
\* application starts: its body is empty
constructorRequests(id, store) == {}

(***************************************************************************)
(* WarehouseComponent and WarehouseService.                                *)
(***************************************************************************)
NoData == [content |-> <<>>, total_elements |-> 0, total_pages |-> 0]

\* the ApiResponse<PageResponse> bodies the backend can answer a list call for
\* page with: a page of data, success = false, or success without data
ListResponses(page) ==
  { [success |-> TRUE, hasData |-> TRUE,
     data |-> [content |-> <<page>>, total_elements |-> n * pageSize,
               total_pages |-> n]] : n \in 0..MaxPages }
  \cup { [success |-> FALSE, hasData |-> FALSE, data |-> NoData],
         [success |-> TRUE, hasData |-> FALSE, data |-> NoData] }

\* WarehouseService.getAll(page, size): the GET request it hands to HttpClient
getAll(id, page, store) == Request(id, WarehouseUrl, "", "", page, store)

\* WarehouseComponent.ngOnInit, which is loadWarehouses
ngOnInit ==
  /\ ~whInit
  /\ nextId <= MaxRequests
  /\ whInit' = TRUE
  /\ loading' = TRUE
  /\ http' = http \cup {getAll(nextId, currentPage, localStorage)}
  /\ nextId' = nextId + 1
  /\ ev' = Event("loadWarehouses", nextId, 0, "", TRUE)
  /\ UNCHANGED <<localStorage, url, loginVars, toast, wareHouses, currentPage,
                 totalElements, totalPages, filterVars, activation>>

\* a next handler that empties the list when the response carries no data
WarehouseNextClears(r, response) ==
  /\ r \in http
  /\ r.endpoint = WarehouseUrl
  /\ http' = http \ {r}
  /\ IF response.success /\ response.hasData
       THEN /\ wareHouses' = response.data.content
            /\ totalElements' = response.data.total_elements
            /\ totalPages' = response.data.total_pages
       ELSE /\ wareHouses' = <<>>
            /\ totalElements' = 0
            /\ totalPages' = 0
  /\ loading' = FALSE
  /\ ev' = Event("warehouseNext", r.id, 200, "",
               response.success /\ response.hasData)
  /\ UNCHANGED <<localStorage, url, nextId, loginVars, toast, currentPage,
                 whInit, filterVars, activation>>

\* the next handler of loadWarehouses
WarehouseNext(r, response) ==
  /\ r \in http
  /\ r.endpoint = WarehouseUrl
  /\ http' = http \ {r}
  /\ IF response.success /\ response.hasData
       THEN /\ wareHouses' = response.data.content
            /\ totalElements' = response.data.total_elements
            /\ totalPages' = response.data.total_pages
       ELSE UNCHANGED <<wareHouses, totalElements, totalPages>>
  /\ loading' = FALSE
  /\ ev' = Event("warehouseNext", r.id, 200, "",
               response.success /\ response.hasData)
  /\ UNCHANGED <<localStorage, url, nextId, loginVars, toast, currentPage,
                 whInit, filterVars, activation>>

\* an error handler that only logs
WarehouseErrorKeepsLoading(r, status) ==
  /\ r \in http
  /\ r.endpoint = WarehouseUrl
  /\ http' = http \ {r}
  /\ ev' = Event("warehouseError", r.id, status, "", FALSE)
  /\ UNCHANGED <<localStorage, url, nextId, loginVars, toast, whVars,
                 filterVars, activation>>

\* the response to r is an error with this status: the pipeline sends r again,
\* or the error handler of loadWarehouses runs
WarehouseError(r, status) ==
  /\ r \in http
  /\ r.endpoint = WarehouseUrl
  /\ IF Resends(r)
       THEN /\ http' = (http \ {r}) \cup {[r EXCEPT !.sends = @ + 1]}
            /\ ev' = Event("resend", r.id, status, "", FALSE)
            /\ UNCHANGED <<localStorage, url, loginVars, toast, loading>>
       ELSE LET piped == PipelineError(localStorage, url, toast, status)
            IN  /\ localStorage' = piped.store
                /\ url' = piped.url
                /\ SetLogin(AfterNavigation(url, piped.url, LoginFields))
                /\ http' = Detach(url, piped.url, http \ {r})
                /\ toast' = piped.toast
                /\ loading' = FALSE
                /\ ev' = Event("warehouseError", r.id, status, "", FALSE)
  /\ UNCHANGED <<nextId, wareHouses, currentPage, totalElements, totalPages,
                 whInit, filterVars, activation>>

\* WarehouseComponent.loadWarehouses for the page the component has just set
loadWarehouses(page) ==
  /\ loading' = TRUE
  /\ http' = http \cup {getAll(nextId, page, localStorage)}
  /\ nextId' = nextId + 1

\* the page numbers the paginator can hand to onPageChange
PageInputs == 0..(MaxPages - 1)

onPageChange(page) ==
  /\ whInit
  /\ nextId <= MaxLoads
  /\ currentPage' = page
  /\ loadWarehouses(page)
  /\ ev' = Event("onPageChange", nextId, 0, "", TRUE)
  /\ UNCHANGED <<localStorage, url, loginVars, toast, wareHouses,
                 totalElements, totalPages, whInit, filterVars, activation>>

\* nextPage without its test of the last page
nextPageUnguarded ==
  /\ whInit
  /\ nextId <= MaxLoads
  /\ currentPage' = currentPage + 1
  /\ loadWarehouses(currentPage + 1)
  /\ ev' = Event("nextPage", nextId, 0, "", TRUE)
  /\ UNCHANGED <<localStorage, url, loginVars, toast, wareHouses,
                 totalElements, totalPages, whInit, filterVars, activation>>

nextPage ==
  /\ whInit
  /\ IF currentPage < totalPages - 1
       THEN /\ nextId <= MaxLoads
            /\ currentPage' = currentPage + 1
            /\ loadWarehouses(currentPage + 1)
            /\ ev' = Event("nextPage", nextId, 0, "", TRUE)
       ELSE /\ ev' = Event("nextPage", 0, 0, "", FALSE)
            /\ UNCHANGED <<currentPage, loading, http, nextId>>
  /\ UNCHANGED <<localStorage, url, loginVars, toast, wareHouses,
                 totalElements, totalPages, whInit, filterVars, activation>>

previousPage ==
  /\ whInit
  /\ IF currentPage > 0
       THEN /\ nextId <= MaxLoads
            /\ currentPage' = currentPage - 1
            /\ loadWarehouses(currentPage - 1)
            /\ ev' = Event("previousPage", nextId, 0, "", TRUE)
       ELSE /\ ev' = Event("previousPage", 0, 0, "", FALSE)
            /\ UNCHANGED <<currentPage, loading, http, nextId>>
  /\ UNCHANGED <<localStorage, url, loginVars, toast, wareHouses,
                 totalElements, totalPages, whInit, filterVars, activation>>

\* Strings of the filter are sequences of characters.
\* String.prototype.toLowerCase, character by character
LowerChar(c) == IF c = "A" THEN "a" ELSE IF c = "B" THEN "b" ELSE c

toLowerCase(str) == [i \in 1..Len(str) |-> LowerChar(str[i])]

\* WareHouseStatus and WareHouseType values of the filter's select boxes, with
\* the empty choice
StatusChoices == {"", "ACTIVE", "INACTIVE"}
TypeChoices == {"", "MAIN", "SATELLITE"}
\* texts typed into the search box
SearchTerms == {<<>>, <<"a">>, <<"A", "B">>, <<"b", "1">>, <<"b", "b">>}

\* the WareHouseResponse rows the backend can return
WareHouseRows ==
  { [name |-> <<"K", "a", "b">>, code |-> <<"1">>, address |-> <<"x">>,
     status |-> "ACTIVE", ware_house_type |-> "MAIN"],
    [name |-> <<"x">>, code |-> <<"A", "B", "1">>, address |-> <<"x">>,
     status |-> "INACTIVE", ware_house_type |-> "MAIN"],
    [name |-> <<"x">>, code |-> <<"2">>, address |-> <<"B", "b">>,
     status |-> "ACTIVE", ware_house_type |-> "SATELLITE"],
    [name |-> <<"b">>, code |-> <<"3">>, address |-> <<>>,
     status |-> "UNDER_MAINTENANCE", ware_house_type |-> "SATELLITE"] }

\* the lists of at most MaxLen rows
WareHouseLists ==
  UNION { [1..n -> WareHouseRows] : n \in 0..MaxLen }

\* the callback of getFilteredWarehouses with a search that compares the
\* term as typed
matchesCaseSensitive(warehouse, term, status, type) ==
  LET matchesSearch ==
        \/ term = <<>>
        \/ Includes(toLowerCase(warehouse.name), term)
        \/ Includes(toLowerCase(warehouse.code), term)
        \/ Includes(toLowerCase(warehouse.address), term)
      matchesStatus == status = "" \/ warehouse.status = status
      matchesType == type = "" \/ warehouse.ware_house_type = type
  IN  matchesSearch /\ matchesStatus /\ matchesType

\* the callback getFilteredWarehouses hands to Array.prototype.filter
matches(warehouse, term, status, type) ==
  LET matchesSearch ==
        \/ term = <<>>
        \/ Includes(toLowerCase(warehouse.name), toLowerCase(term))
        \/ Includes(toLowerCase(warehouse.code), toLowerCase(term))
        \/ Includes(toLowerCase(warehouse.address), toLowerCase(term))
      matchesStatus == status = "" \/ warehouse.status = status
      matchesType == type = "" \/ warehouse.ware_house_type = type
  IN  matchesSearch /\ matchesStatus /\ matchesType

\* Array.prototype.filter: a new array of the elements the callback accepts
getFilteredWarehouses ==
  /\ whInit
  /\ LET Keep(w) == matches(w, searchTerm, selectedStatus, selectedType)
     IN  filtered' = SelectSeq(wareHouses, Keep)
  /\ ev' = Event("getFilteredWarehouses", 0, 0, "", TRUE)
  /\ UNCHANGED <<localStorage, url, http, nextId, loginVars, toast, whVars,
                 searchTerm, selectedStatus, selectedType, activation>>

\* the template's two-way bindings write the three filter fields
setFilters(term, status, type) ==
  /\ whInit
  /\ searchTerm' = term
  /\ selectedStatus' = status
  /\ selectedType' = type
  /\ ev' = Event("setFilters", 0, 0, "", TRUE)
  /\ UNCHANGED <<localStorage, url, http, nextId, loginVars, toast, whVars,
                 filtered, activation>>

(***************************************************************************)
(* The application.                                                        *)
(***************************************************************************)
\* a fresh browser profile opens the application at the empty path
Init ==
  /\ localStorage = <<>>
  /\ url = Resolve("")
  /\ http = {}
  /\ nextId = 1
  /\ loginForm = InitialLogin.loginForm
  /\ isLoading = InitialLogin.isLoading
  /\ errorMessage = InitialLogin.errorMessage
  /\ hidePassword = InitialLogin.hidePassword
  /\ submitted = InitialLogin.submitted
  /\ toast = NoToast
  /\ wareHouses = <<>>
  /\ loading = FALSE
  /\ currentPage = 0
  /\ totalElements = 0
  /\ totalPages = 0
  /\ whInit = FALSE
  /\ searchTerm = <<>>
  /\ selectedStatus = ""
  /\ selectedType = ""
  /\ filtered = <<>>
  /\ activation = NoActivation
  /\ ev = Event("init", 0, 0, "", FALSE)

\* The user reloads the page. Requests in flight are dropped with the old page,
\* every component is constructed anew, the router resolves the same path and
\* localStorage is what the browser kept.
Reload ==
  /\ url' = Resolve(url)
  /\ SetLogin(InitialLogin)
  /\ http' = constructorRequests(nextId, localStorage)
  /\ nextId' = nextId + Cardinality(constructorRequests(nextId, localStorage))
  /\ toast' = NoToast
  /\ wareHouses' = <<>>
  /\ loading' = FALSE
  /\ currentPage' = 0
  /\ totalElements' = 0
  /\ totalPages' = 0
  /\ whInit' = FALSE
  /\ searchTerm' = <<>>
  /\ selectedStatus' = ""
  /\ selectedType' = ""
  /\ filtered' = <<>>
  /\ ev' = Event("reload", 0, 0, "", FALSE)
  /\ UNCHANGED <<localStorage, activation>>

Next ==
  \/ \E u \in Usernames, p \in Passwords : patchValue(u, p)
  \/ togglePassword
  \/ onSubmit
  \/ \E r \in http : LoginNext(r)
  \/ \E r \in http, e \in LoginErrors : LoginError(r, e)
  \/ \E p \in Paths : Navigate(p)
  \/ ngOnInit
  \/ \E r \in http : \E response \in ListResponses(r.page) :
       WarehouseNext(r, response)
  \/ \E r \in http, status \in ErrorStatuses : WarehouseError(r, status)
  \/ Reload

Spec == Init /\ [][Next]_vars

(***************************************************************************)
(* The application with the documented logout.                             *)
(***************************************************************************)
\* Logout that removes the access token only
LogoutAccessOnly ==
  /\ localStorage' = [k \in (DOMAIN localStorage) \ {"access_token"} |->
                        localStorage[k]]
  /\ url' = Resolve("login")
  /\ SetLogin(AfterNavigation(url, Resolve("login"), LoginFields))
  /\ http' = Detach(url, Resolve("login"), http)
  /\ ev' = Event("logout", 0, 0, "", FALSE)
  /\ UNCHANGED <<nextId, toast, whVars, filterVars, activation>>

\* Logout Flow: the user clicks logout, the stored credentials are cleared
\* and the router goes to login
Logout ==
  /\ localStorage' = logout(localStorage)
  /\ url' = Resolve("login")
  /\ SetLogin(AfterNavigation(url, Resolve("login"), LoginFields))
  /\ http' = Detach(url, Resolve("login"), http)
  /\ ev' = Event("logout", 0, 0, "", FALSE)
  /\ UNCHANGED <<nextId, toast, whVars, filterVars, activation>>

NextLogout ==
  \/ Next
  \/ Logout

SpecLogout == Init /\ [][NextLogout]_vars

(***************************************************************************)
(* The warehouse page: ngOnInit, the paging handlers and the responses to  *)
(* the list requests.                                                      *)
(***************************************************************************)
\* one list request in flight is answered
Answer ==
  \E r \in http :
    \/ \E response \in ListResponses(r.page) : WarehouseNext(r, response)
    \/ \E status \in ErrorStatuses : WarehouseError(r, status)

NextPaging ==
  \/ ngOnInit
  \/ \E page \in PageInputs : onPageChange(page)
  \/ nextPage
  \/ previousPage
  \/ Answer

SpecPaging == Init /\ [][NextPaging]_vars

\* HttpClient delivers a response or an error for every request it sent
SpecPagingFair == SpecPaging /\ WF_vars(Answer)

(***************************************************************************)
(* The warehouse page with a list on display: the filters and the          *)
(* filtered view.                                                          *)
(***************************************************************************)
\* the page after a list response has been applied
InitFilter ==
  /\ localStorage = <<>>
  /\ url = Resolve("")
  /\ http = {}
  /\ nextId = 2
  /\ loginForm = InitialLogin.loginForm
  /\ isLoading = InitialLogin.isLoading
  /\ errorMessage = InitialLogin.errorMessage
  /\ hidePassword = InitialLogin.hidePassword
  /\ submitted = InitialLogin.submitted
  /\ toast = NoToast
  /\ wareHouses \in WareHouseLists
  /\ loading = FALSE
  /\ currentPage = 0
  /\ totalElements = Len(wareHouses)
  /\ totalPages = IF wareHouses = <<>> THEN 0 ELSE 1
  /\ whInit = TRUE
  /\ searchTerm = <<>>
  /\ selectedStatus = ""
  /\ selectedType = ""
  /\ filtered = <<>>
  /\ activation = NoActivation
  /\ ev = Event("warehouseNext", 1, 200, "", TRUE)

NextFilter ==
  \/ \E term \in SearchTerms, status \in StatusChoices, type \in TypeChoices :
       setFilters(term, status, type)
  \/ getFilteredWarehouses

SpecFilter == InitFilter /\ [][NextFilter]_vars

(***************************************************************************)
(* The documented role guard on the protected pages.                       *)
(***************************************************************************)
\* the application opens with or without a stored token pair
InitRoleGuard ==
  /\ localStorage \in {<<>>, StoreTokens(<<>>, AuthResponse(1))}
  /\ url = Resolve("")
  /\ http = {}
  /\ nextId = 2
  /\ loginForm = InitialLogin.loginForm
  /\ isLoading = InitialLogin.isLoading
  /\ errorMessage = InitialLogin.errorMessage
  /\ hidePassword = InitialLogin.hidePassword
  /\ submitted = InitialLogin.submitted
  /\ toast = NoToast
  /\ wareHouses = <<>>
  /\ loading = FALSE
  /\ currentPage = 0
  /\ totalElements = 0
  /\ totalPages = 0
  /\ whInit = FALSE
  /\ searchTerm = <<>>
  /\ selectedStatus = ""
  /\ selectedType = ""
  /\ filtered = <<>>
  /\ activation = NoActivation
  /\ ev = Event("init", 0, 0, "", FALSE)

NextRoleGuard ==
  \E p \in ProtectedPaths, userRoles \in SUBSET Roles, route \in RouteData :
    RoleGuardActivate(p, userRoles, route)

SpecRoleGuard == InitRoleGuard /\ [][NextRoleGuard]_vars

(***************************************************************************)
(* Properties.                                                             *)
(***************************************************************************)
accessToken == getItem(localStorage, "access_token")
refreshToken == getItem(localStorage, "refresh_token")

\* C1: whenever a login request completes successfully, the values stored
\* under access_token and refresh_token are exactly the two tokens of that
\* response, whatever was stored before.
C1_LoginStoresTokens ==
  ev.op = "loginNext" =>
    /\ accessToken = AuthResponse(ev.id).access_token
    /\ refreshToken = AuthResponse(ev.id).refresh_token

\* the second login of a behaviour has succeeded and its pair is the stored one
C1_Witness ==
  /\ ev.op = "loginNext"
  /\ ev.id = 2
  /\ accessToken = <<"access", 2>>
  /\ refreshToken = <<"refresh", 2>>

\* C2: a login that fails leaves the stored tokens and the session state as
\* they were before the response, for every prior state.
C2_FailedLoginKeepsSession ==
  [][ev'.op = "loginError" =>
       /\ localStorage' = localStorage
       /\ isAuthenticated' = isAuthenticated]_vars

\* a login was rejected while a pair was stored, and the pair is still there
C2_Witness ==
  /\ ev.op = "loginError"
  /\ ev.status = 401
  /\ isAuthenticated
  /\ refreshToken # NULL

\* credentials as the claim calls them malformed
Malformed(form) ==
  form.username = "" \/ form.password = "" \/ Len(form.password) < 6

\* C3: onSubmit with malformed credentials sends no request, leaves isLoading
\* as it was (false stays false) and leaves the stored tokens unchanged.
C3_MalformedNeverSent ==
  [][ev'.op = "onSubmit" /\ Malformed(loginForm) =>
       /\ http' = http
       /\ nextId' = nextId
       /\ isLoading' = isLoading
       /\ localStorage' = localStorage]_vars

\* onSubmit has run on a five-character password and nothing is in flight
C3_Witness ==
  /\ ev.op = "onSubmit"
  /\ loginForm = [username |-> "alice", password |-> "abcde"]
  /\ submitted
  /\ ~isLoading
  /\ http = {}
  /\ toast.kind = "warning"

\* C4: a navigation to a protected page ends on that page only when the
\* session is authenticated; when it is not, it ends on the login page.
C4_ProtectedNeedsAuth ==
  ev.op = "navigate" /\ ev.path \in ProtectedPaths =>
    /\ url \in ProtectedPaths => isAuthenticated
    /\ ~isAuthenticated => url = "login"

\* the dashboard was asked for without a session, from the register page, and
\* the router settled on login
C4_Witness ==
  /\ ev.op = "navigate"
  /\ ev.path = "dashboard"
  /\ ~isAuthenticated
  /\ url = "login"

\* C5: a request to a protected endpoint issued while an access token is
\* stored carries Authorization: Bearer <that token>, and a request to the
\* login, register or refresh endpoint carries no Authorization header.
C5_BearerOnProtected ==
  /\ ev.op = "loadWarehouses" /\ isAuthenticated =>
       \A r \in http :
         r.id = ev.id => r.authorization = <<"Bearer", accessToken>>
  /\ \A r \in http : isAuthEndpoint(r.endpoint) => r.authorization = NULL

\* C6: after a successful login the router has settled on the dashboard.
C6_LoginLandsOnDashboard == ev.op = "loginNext" => url = "dashboard"

\* C7: the response of a login issued before the login whose tokens are
\* stored is discarded: it does not overwrite the stored pair.
C7_StaleLoginDiscarded ==
  [][(/\ ev'.op = "loginNext"
      /\ isAuthenticated
      /\ accessToken[2] > ev'.id) => localStorage' = localStorage]_vars

\* C8: the access token is stored if and only if the refresh token is.
C8_NoPartialTokens ==
  ("access_token" \in DOMAIN localStorage)
    <=> ("refresh_token" \in DOMAIN localStorage)

\* two login responses have been handled one after another and both keys are
\* stored
C8_Witness ==
  /\ ev.op = "loginNext"
  /\ nextId = 3
  /\ http = {}
  /\ DOMAIN localStorage = {"access_token", "refresh_token"}

C10_UnauthorizedLogsOut ==
  [][(/\ ev'.op = "warehouseError"
      /\ ev'.status = 401
      /\ isAuthenticated) =>
       /\ ~isAuthenticated'
       /\ DOMAIN localStorage' = {}
       /\ url' = "login"]_vars

NonAuthErrors == {400, 403, 404, 500}

\* C12: a response with an error status other than 401 reaches the caller's
\* error handler (the request is no longer in flight) and leaves the stored
\* tokens, the session state and the page unchanged.
C12_OtherErrorsKeepSession ==
  [][(/\ ev'.op \in {"warehouseError", "loginError"}
      /\ ev'.status \in NonAuthErrors) =>
       /\ \A r \in http' : r.id # ev'.id
       /\ localStorage' = localStorage
       /\ isAuthenticated' = isAuthenticated
       /\ url' = url]_vars

\* a warehouse call of an authenticated session was answered 403 and the pair
\* is still stored
C12_Witness ==
  /\ ev.op = "warehouseError"
  /\ ev.status = 403
  /\ ~loading
  /\ isAuthenticated

\* C13: the session becomes authenticated only by a successful login response
\* or a session restore, becomes unauthenticated only by logout or a 401 on a
\* protected call, and no other handler changes the stored tokens.
C13_OnlySessionTransitions ==
  [][/\ (~isAuthenticated /\ isAuthenticated') =>
          ev'.op \in {"loginNext", "reload"}
     /\ (isAuthenticated /\ ~isAuthenticated') =>
          \/ ev'.op = "logout"
          \/ ev'.op = "warehouseError" /\ ev'.status = 401
     /\ ev'.op \in {"patchValue", "togglePassword", "onSubmit", "loginError",
                    "navigate", "loadWarehouses", "warehouseNext"} =>
          localStorage' = localStorage]_vars

\* the first login of a behaviour has succeeded: the session went from
\* unauthenticated to authenticated
C13_Witness ==
  /\ ev.op = "loginNext"
  /\ ev.id = 1
  /\ nextId = 2
  /\ isAuthenticated

\* pages for users who are not logged in
GuestPaths == {"login", "register"}

\* C14: a navigation to a guest-only page ends on that page only when the
\* session is not authenticated; an authenticated user ends on the dashboard.
C14_GuestOnly ==
  ev.op = "navigate" /\ ev.path \in GuestPaths =>
    /\ url \in GuestPaths => ~isAuthenticated
    /\ isAuthenticated => url = "dashboard"

\* C15: when a navigation to a protected page was blocked for lack of a
\* session, the login that succeeds next (here: as the very next event)
\* resumes the navigation to the page that was asked for.
C15_ReturnUrlResumed ==
  [][(/\ ev.op = "navigate"
      /\ ev.path \in ProtectedPaths
      /\ ~isAuthenticated
      /\ ev'.op = "loginNext") => url' = ev.path]_vars

C17_LogoutClears ==
  [][ev'.op = "logout" =>
       /\ DOMAIN localStorage' = {}
       /\ ~isAuthenticated'
       /\ ev.op = "logout" => vars' = vars]_vars

\* a session that a login had opened was logged out
C17_Witness ==
  /\ ev.op = "logout"
  /\ toast.kind = "success"
  /\ DOMAIN localStorage = {}
  /\ url = "login"

\* Token Store.load: the token pair as it is read back from localStorage
load(store) ==
  [access_token |-> getItem(store, "access_token"),
   refresh_token |-> getItem(store, "refresh_token"),
   expire_access_token |-> getItem(store, "expire_access_token"),
   expire_refresh_token |-> getItem(store, "expire_refresh_token")]

\* C18 as stated: the pair read back after a successful login is
\* field-for-field the pair received, the two expiries included.
C18_RoundTripAllFields ==
  ev.op = "loginNext" => load(localStorage) = AuthResponse(ev.id)

\* C18 amended: the access token and the refresh token read back after a
\* successful login are those received; the two expiries are not persisted.
C18_RoundTripTokens ==
  ev.op = "loginNext" =>
    /\ load(localStorage).access_token = AuthResponse(ev.id).access_token
    /\ load(localStorage).refresh_token = AuthResponse(ev.id).refresh_token
    /\ load(localStorage).expire_access_token = NULL
    /\ load(localStorage).expire_refresh_token = NULL

\* the first login has succeeded while the second is still in flight
C18_Witness ==
  /\ ev.op = "loginNext"
  /\ ev.id = 1
  /\ \E r \in http : r.id = 2 /\ r.endpoint = LoginUrl
  /\ load(localStorage).access_token = <<"access", 1>>

\* C19: localStorage holds at most the keys access_token and refresh_token,
\* and each holds a token a login response carried, never a credential.
C19_CredentialsNotStored ==
  /\ DOMAIN localStorage \subseteq {"access_token", "refresh_token"}
  /\ \A k \in DOMAIN localStorage :
       \E i \in 1..MaxRequests : localStorage[k] = AuthResponse(i)[k]

\* a pair is stored and a second login carrying the password is in flight
C19_Witness ==
  /\ ev.op = "onSubmit"
  /\ isAuthenticated
  /\ \E r \in http : r.username = "alice" /\ r.password = "secret1"

\* C20: a rejected login is reported with the message the backend sent, and a
\* login without a response (status 0) is not reported as wrong credentials.
C20_NetworkErrorDistinct ==
  ev.op = "loginError" =>
    /\ ev.status = 401 => toast.message = "Invalid credentials"
    /\ ev.status = 0 => toast.message # MsgWrong

\* C21: on the login page, isLoading is true in exactly the states where a
\* login request issued by the displayed component is still unanswered, also
\* when onSubmit has been called again before an earlier response arrived.
C21_LoadingIffInFlight ==
  url = "login" =>
    (isLoading <=> \E r \in http : r.endpoint = LoginUrl /\ r.live)

\* C29: every navigation settles on the login page or the register page; the
\* empty path and every path other than login and register end on login.
C29_OnlyLoginOrRegister ==
  /\ url \in {"login", "register"}
  /\ ev.op = "navigate" /\ ev.path \notin {"login", "register"} =>
       url = "login"

\* the warehouse page was asked for with a stored token pair and the router
\* settled on login
C29_Witness ==
  /\ ev.op = "navigate"
  /\ ev.path = "warehouse"
  /\ isAuthenticated
  /\ url = "login"

\* a list request for the warehouse page is in flight
ListInFlight(reqs) == \E r \in reqs : r.endpoint = WarehouseUrl

\* C23: when a list response has been applied and no list request is left
\* in flight, the displayed list is the content returned for page currentPage.
C23_ListMatchesPage ==
  [][ev'.op = "warehouseNext" /\ ev'.ok /\ ~ListInFlight(http') =>
       wareHouses' = <<currentPage'>>]_vars

\* C24: currentPage is never negative, and never beyond the last page when
\* there is at least one page.
C24_PageInRange ==
  /\ 0 <= currentPage
  /\ totalPages > 0 => currentPage <= totalPages - 1

\* C25: nextPage adds one to currentPage and issues one list request when
\* currentPage < totalPages - 1, previousPage subtracts one and issues one
\* list request when currentPage > 0; otherwise they change nothing and
\* issue no request.
C25_PagingGuards ==
  [][/\ ev'.op = "nextPage" =>
          IF currentPage < totalPages - 1
            THEN /\ currentPage' = currentPage + 1
                 /\ Cardinality(http' \ http) = 1
                 /\ \A r \in http' \ http :
                      r.endpoint = WarehouseUrl /\ r.page = currentPage + 1
                 /\ http \subseteq http'
            ELSE UNCHANGED <<localStorage, url, http, nextId, loginVars,
                             toast, whVars, filterVars>>
     /\ ev'.op = "previousPage" =>
          IF currentPage > 0
            THEN /\ currentPage' = currentPage - 1
                 /\ Cardinality(http' \ http) = 1
                 /\ \A r \in http' \ http :
                      r.endpoint = WarehouseUrl /\ r.page = currentPage - 1
                 /\ http \subseteq http'
            ELSE UNCHANGED <<localStorage, url, http, nextId, loginVars,
                             toast, whVars, filterVars>>]_vars

\* nextPage has moved from page 0 to page 1 of two and its request is in
\* flight
C25_Witness ==
  /\ ev.op = "nextPage"
  /\ ev.ok
  /\ currentPage = 1
  /\ totalPages = 2
  /\ \E r \in http : r.id = ev.id /\ r.page = 1

\* C26: the handler of every answer to a list request leaves loading false;
\* loading turns true only when a request is issued; and when every request
\* is answered, loading is eventually false.
C26_LoadingEnds ==
  /\ [][/\ ev'.op \in {"warehouseNext", "warehouseError"} => ~loading'
        /\ ~loading /\ loading' => nextId' = nextId + 1]_vars
  /\ (loading ~> ~loading)

\* the last of three list requests ended in an error and nothing is in flight
C26_Witness ==
  /\ ev.op = "warehouseError"
  /\ ev.id = MaxLoads
  /\ http = {}
  /\ ~loading

\* C27: a list request that ends in an error, in success = false or in a
\* response without data changes loading only: the list, the totals and the
\* page stay as they were.
C27_FailureKeepsList ==
  [][ev'.op = "warehouseError" \/ (ev'.op = "warehouseNext" /\ ~ev'.ok) =>
       /\ UNCHANGED <<wareHouses, totalElements, totalPages, currentPage,
                      whInit, filterVars>>
       /\ ~loading']_vars

\* a page of data is displayed and a later response came without data
C27_Witness ==
  /\ ev.op = "warehouseNext"
  /\ ~ev.ok
  /\ wareHouses # <<>>
  /\ totalPages > 0

\* two characters are the same letter, whatever their case
SameLetter(c, d) ==
  c = d \/ {c, d} \in {{"a", "A"}, {"b", "B"}}

\* term occurs in field as a run of consecutive characters, case ignored
OccursIgnoringCase(term, field) ==
  \E start \in 0..(Len(field) - Len(term)) :
    \A k \in 1..Len(term) : SameLetter(term[k], field[start + k])

\* row w passes every filter that is set
Satisfies(w) ==
  /\ searchTerm = <<>>
       \/ OccursIgnoringCase(searchTerm, w.name)
       \/ OccursIgnoringCase(searchTerm, w.code)
       \/ OccursIgnoringCase(searchTerm, w.address)
  /\ selectedStatus = "" \/ w.status = selectedStatus
  /\ selectedType = "" \/ w.ware_house_type = selectedType

\* the positions of wareHouses whose row passes
Kept == { i \in 1..Len(wareHouses) : Satisfies(wareHouses[i]) }

\* filtered is wareHouses restricted to Kept, in the order of wareHouses
IsFilteredView ==
  /\ Len(filtered) = Cardinality(Kept)
  /\ \A i \in Kept :
       filtered[Cardinality({ j \in Kept : j <= i })] = wareHouses[i]

\* C28: getFilteredWarehouses returns, in their order, exactly the rows of
\* wareHouses that pass all the filters that are set (search term as a
\* substring of name, code or address with case ignored, status and type by
\* equality), and changes no field of the component.
C28_FilteredView ==
  [][ev'.op = "getFilteredWarehouses" =>
       /\ IsFilteredView'
       /\ UNCHANGED <<localStorage, url, http, nextId, loginVars, toast,
                      whVars, searchTerm, selectedStatus, selectedType>>]_vars

\* an upper-case search term has selected the second of two rows
C28_Witness ==
  /\ ev.op = "getFilteredWarehouses"
  /\ searchTerm = <<"A", "B">>
  /\ Len(wareHouses) = 2
  /\ Len(filtered) = 1
  /\ filtered[1] = wareHouses[2]

\* the route of the last activation asks for no role
RequiresNoRoles == ~activation.hasRoles \/ activation.requiredRoles = {}

\* the user of the last activation holds one of the roles the route asks for
HoldsRole == activation.requiredRoles \cap activation.roles # {}

\* C22: the role guard allows a navigation exactly when the session is
\* authenticated and the route requires no roles or the user holds one of the
\* required roles; it sends an unauthenticated user to login and an
\* authenticated user without the role to dashboard.
C22_RoleGuardDecision ==
  activation.called =>
    /\ activation.allow <=>
         activation.isAuthenticated /\ (RequiresNoRoles \/ HoldsRole)
    /\ ~activation.isAuthenticated => activation.navigate = "login"
    /\ activation.isAuthenticated /\ ~RequiresNoRoles /\ ~HoldsRole =>
         activation.navigate = "dashboard"

====
